---- MODULE Spec2Model ----
(***************************************************************************)
(* A model of the two Wordle advisers of this repository:                  *)
(*   src/wordle.py        the heuristic adviser (per-letter statistics)    *)
(*   src/wordle_exact.py  the exact adviser (feedback partitions)          *)
(* Words and labels are Python strings; they are modelled as sequences of  *)
(* one-character strings.  Python positions 0..n-1 are positions 1..n.     *)
(***************************************************************************)
EXTENDS Integers, Sequences, FiniteSets, TLC

VARIABLES
    prog,               \* which script runs: "heuristic", "exact", or "none"
    hints,              \* wordle_exact.py self.hints; for wordle.py the log of
                        \* the calls that passed the assertions (history)
    words,              \* wordle_exact.py self.words: type -> [orig, pruned]
    answer_pool,        \* wordle.py: answer_words as first read (history)
    allowed_words,      \* wordle.py self.allowed_words
    answer_words,       \* wordle.py self.answer_words
    chars,              \* wordle.py self.chars
    char_pos_counts,    \* wordle.py self.char_pos_counts
    char_in_counts,     \* wordle.py self.char_in_counts
    char_notin_counts,  \* wordle.py self.char_notin_counts
    call,               \* the last call made and its arguments (history)
    out,                \* what the last call raised and printed
    enc,                \* get_label taken alone: its arguments and result
    rank                \* the ranking step of predict taken alone

vars == <<prog, hints, words, answer_pool, allowed_words, answer_words, chars,
          char_pos_counts, char_in_counts, char_notin_counts, call, out, enc,
          rank>>

(***************************************************************************)
(* Bounds of the model.                                                    *)
(***************************************************************************)
\* the session's word length, Wordle(_len, ...)
L == 2
\* add_word_hint calls per session
MaxHints == 2
\* add_word_hint calls before a predict in the sessions that predict
MaxPredictHints == 1
\* allowed words that the answer pool lacks
MaxMissing == 1
\* the K values given to predict in a session are 0..MaxK
MaxK == 1
\* get_label taken alone: words of length 1..MaxLen
MaxLen == 3
\* the ranking step taken alone: pools of 0..MaxPool words, scores 0..MaxScore
MaxPool == 3
MaxScore == 2

Alphabet == {"a", "b", "c"}
EncAlphabet == {"a", "b", "c"}
Symbols == {"0", "1", "2"}

Range(s) == {s[i] : i \in DOMAIN s}

\* the exception a Python call ends with, when it ends with one
NoError == "none"
IndexError == "IndexError"
AssertionError == "AssertionError"
\* what get_label stands for when target[pos] is out of range
Raised == <<IndexError>>

(***************************************************************************)
(* wordle_exact.py get_label: the two-pass feedback pattern.               *)
(***************************************************************************)
\* dict(Counter(list(target)))
Counter(s) == [c \in Range(s) |-> Cardinality({i \in DOMAIN s : s[i] = c})]

\* char_counts.get(char, 0)
dict_get(d, c) == IF c \in DOMAIN d THEN d[c] ELSE 0

\* the first loop (lines 57-60), from position pos on; the pair <<ans, char_counts>>
RECURSIVE label_pass1(_, _, _, _, _)
label_pass1(word, target, pos, ans, cc) ==
    IF pos > Len(word) THEN <<ans, cc>>
    ELSE IF target[pos] = word[pos]
         THEN label_pass1(word, target, pos + 1,
                          [ans EXCEPT ![pos] = "2"],
                          [cc EXCEPT ![word[pos]] = @ - 1])
         ELSE label_pass1(word, target, pos + 1, ans, cc)

\* the second loop (lines 61-64), from position pos on
RECURSIVE label_pass2(_, _, _, _)
label_pass2(word, pos, ans, cc) ==
    IF pos > Len(word) THEN ans
    ELSE IF ans[pos] # "2" /\ dict_get(cc, word[pos]) > 0
         THEN label_pass2(word, pos + 1, [ans EXCEPT ![pos] = "1"],
                          [cc EXCEPT ![word[pos]] = @ - 1])
         ELSE label_pass2(word, pos + 1, ans, cc)

\* a single pass that marks every letter occurring in target: the encoder
\* without its letter counts
get_label_onepass(word, target) ==
    IF Len(word) > Len(target) THEN Raised
    ELSE [i \in 1..Len(word) |->
            IF target[i] = word[i] THEN "2"
            ELSE IF word[i] \in Range(target) THEN "1" ELSE "0"]

get_label(word, target) ==
    IF Len(word) > Len(target)
    THEN Raised     \* target[pos] raises IndexError at pos = len(target)
    ELSE LET p1 == label_pass1(word, target, 1,
                               [i \in 1..Len(word) |-> "0"], Counter(target))
         IN  label_pass2(word, 1, p1[1], p1[2])

(***************************************************************************)
(* get_label taken alone.                                                  *)
(***************************************************************************)
WordsOfLen(n, alphabet) == [1..n -> alphabet]

EncInputs ==
    UNION {WordsOfLen(n, EncAlphabet) \X WordsOfLen(n, EncAlphabet) : n \in 1..MaxLen}

Idle ==
    /\ prog = "none"
    /\ hints = <<>>
    /\ words = <<>>
    /\ answer_pool = {}
    /\ allowed_words = {}
    /\ answer_words = {}
    /\ chars = {}
    /\ char_pos_counts = <<>>
    /\ char_in_counts = <<>>
    /\ char_notin_counts = <<>>
    /\ call = [op |-> "none", args |-> <<>>]
    /\ out = [err |-> NoError, lines |-> <<>>]

NoEnc == [word |-> <<>>, target |-> <<>>, label |-> <<>>, done |-> FALSE]
NoRank == [scores |-> <<>>, K |-> 0, strategy |-> "none", order |-> <<>>,
           done |-> FALSE]

InitLabel ==
    /\ Idle
    /\ rank = NoRank
    /\ \E p \in EncInputs :
          enc = [word |-> p[1], target |-> p[2], label |-> <<>>, done |-> FALSE]

Encode ==
    /\ ~enc.done
    /\ enc' = [enc EXCEPT !.label = get_label(enc.word, enc.target),
                          !.done = TRUE]
    /\ UNCHANGED <<prog, hints, words, answer_pool, allowed_words, answer_words,
                   chars, char_pos_counts, char_in_counts, char_notin_counts,
                   call, out, rank>>

NextLabel == Encode

SpecLabel == InitLabel /\ [][NextLabel]_vars

\* the positions of word holding letter c
Occurrences(word, c) == {i \in DOMAIN word : word[i] = c}

\* C1: for a guess and an answer of equal length, get_label returns a pattern
\* of that length over '0','1','2' in which position i is '2' exactly when the
\* two words agree at i, and for every letter the positions of the guess that
\* hold it and are marked '1' or '2' are no more than its occurrences in the
\* answer.
C1_LabelContract ==
    enc.done =>
        /\ Len(enc.label) = Len(enc.word)
        /\ \A i \in DOMAIN enc.label : enc.label[i] \in Symbols
        /\ \A i \in DOMAIN enc.word :
              (enc.label[i] = "2") <=> (enc.word[i] = enc.target[i])
        /\ \A c \in EncAlphabet :
              Cardinality({i \in Occurrences(enc.word, c) : enc.label[i] \in {"1", "2"}})
                  <= Cardinality(Occurrences(enc.target, c))

\* a repeated letter of the guess of which the answer holds fewer: one
\* occurrence is marked '2' or '1' and a later or earlier one stays '0'
C1_Witness ==
    /\ enc.done
    /\ \E i, j \in DOMAIN enc.word :
          /\ i # j
          /\ enc.word[i] = enc.word[j]
          /\ enc.label[i] = "0"
          /\ enc.label[j] \in {"1", "2"}
          /\ \E k \in DOMAIN enc.word : enc.label[k] = "1"


(***************************************************************************)
(* The word pools.  read_words keeps the lines of length _len; the files   *)
(* are modelled by the words over Alphabet.  A Python set is listed in an  *)
(* order the program does not choose; the model lists it by WordKey.       *)
(***************************************************************************)
Words == WordsOfLen(L, Alphabet)
\* the sets of at most k words
RECURSIVE AtMost(_)
AtMost(k) ==
    IF k = 0 THEN {{}}
    ELSE AtMost(k - 1) \cup {M \cup {w} : M \in AtMost(k - 1), w \in Words}

\* the answer pools: the allowed words but for at most MaxMissing of them
AnswerPools == {Words \ M : M \in AtMost(MaxMissing)}

LetterKey(c) == CASE c = "a" -> 0 [] c = "b" -> 1 [] OTHER -> 2

RECURSIVE WordKey(_)
WordKey(w) ==
    IF Len(w) = 0 THEN 0 ELSE 3 * WordKey(SubSeq(w, 1, Len(w) - 1)) + LetterKey(w[Len(w)]) + 1

\* list(words) / np.array(list(words))
RECURSIVE ListOf(_)
ListOf(S) ==
    IF S = {} THEN <<>>
    ELSE LET w == CHOOSE x \in S : \A y \in S : WordKey(x) <= WordKey(y)
         IN  <<w>> \o ListOf(S \ {w})

(***************************************************************************)
(* wordle_exact.py: the hint list and the pruned lists.                    *)
(* self.words[t] is [original list, pruned list]: Python's words[0] and    *)
(* words[1] are words[t][1] and words[t][2] here.                          *)
(***************************************************************************)
\* all(self.get_label(hword, word) == hlabel for hword, hlabel in self.hints)
\* from hint i on: "keep" (all true), "drop" (one false, the rest not
\* evaluated) or "raise" (get_label raised before any was false)
RECURSIVE all_hints(_, _, _)
all_hints(word, hs, i) ==
    IF i > Len(hs) THEN "keep"
    ELSE LET lab == get_label(hs[i][1], word)
         IN  IF lab = Raised THEN "raise"
             ELSE IF lab = hs[i][2] THEN all_hints(word, hs, i + 1)
             ELSE "drop"

\* prune_words that leaves out the hint appended last (self.hints[:-1])
prune_words_but_last(ws, hs) ==
    LET old == SubSeq(hs, 1, Len(hs) - 1)
    IN  IF \E i \in DOMAIN ws : all_hints(ws[i], old, 1) = "raise"
        THEN [err |-> IndexError, val |-> ws]
        ELSE [err |-> NoError,
              val |-> SelectSeq(ws, LAMBDA w : all_hints(w, old, 1) = "keep")]

\* prune_words: the list comprehension, or the exception that ends it
prune_words(ws, hs) ==
    IF \E i \in DOMAIN ws : all_hints(ws[i], hs, 1) = "raise"
    THEN [err |-> IndexError, val |-> ws]
    ELSE [err |-> NoError,
          val |-> SelectSeq(ws, LAMBDA w : all_hints(w, hs, 1) = "keep")]

\* add_word_hint that prunes the original lists by the new hint alone
exact_add_word_hint_from_original(hs, wd, word, label) ==
    LET hs2 == Append(hs, <<word, label>>)
        new == <<<<word, label>>>>
        pa == prune_words(wd.allowed[1], new)
        pb == prune_words(wd.answers[1], new)
    IN  IF pa.err # NoError \/ pb.err # NoError
        THEN [hints |-> hs2, words |-> wd, err |-> IndexError]
        ELSE [hints |-> hs2,
              words |-> [wd EXCEPT !.allowed[2] = pa.val, !.answers[2] = pb.val],
              err |-> NoError]

\* add_word_hint of wordle_exact.py on (self.hints, self.words): the hint is
\* appended, then the lists are pruned in the dictionary's order, 'allowed'
\* first; an exception leaves the lists not yet assigned as they were
exact_add_word_hint(hs, wd, word, label) ==
    LET hs2 == Append(hs, <<word, label>>)
        pa == prune_words(wd.allowed[2], hs2)
        pb == prune_words(wd.answers[2], hs2)
    IN  IF pa.err # NoError
        THEN [hints |-> hs2, words |-> wd, err |-> pa.err]
        ELSE IF pb.err # NoError
        THEN [hints |-> hs2, words |-> [wd EXCEPT !.allowed[2] = pa.val],
              err |-> pb.err]
        ELSE [hints |-> hs2,
              words |-> [wd EXCEPT !.allowed[2] = pa.val, !.answers[2] = pb.val],
              err |-> NoError]

(***************************************************************************)
(* wordle.py: the candidate set and its statistics.                        *)
(***************************************************************************)
\* update_chars
update_chars(aw) == UNION {Range(w) : w \in aw}

Bit(b) == IF b THEN 1 ELSE 0

\* the loop of update_counts over answer_words (lines 124-131)
RECURSIVE count_words(_, _, _)
count_words(todo, cs, acc) ==
    IF todo = {} THEN acc
    ELSE LET word == CHOOSE w \in todo : TRUE
             charset == Range(word)
         IN  count_words(todo \ {word}, cs,
                [pos |-> [c \in cs |-> [p \in 1..L |->
                             acc.pos[c][p] + Bit(p <= Len(word) /\ word[p] = c)]],
                 in |-> [c \in cs |-> acc.in[c] + Bit(c \in charset)],
                 notin |-> [c \in cs |-> acc.notin[c] + Bit(c \in cs \ charset)]])

\* update_counts that adds a word to char_notin_counts of every letter
update_counts_all_notin(aw, cs) ==
    [pos |-> [c \in cs |-> [p \in 1..L |->
                Cardinality({w \in aw : p <= Len(w) /\ w[p] = c})]],
     in |-> [c \in cs |-> Cardinality({w \in aw : c \in Range(w)})],
     notin |-> [c \in cs |-> Cardinality(aw)]]

\* update_counts: the three dictionaries, zeroed and then counted
update_counts(aw, cs) ==
    count_words(aw, cs, [pos |-> [c \in cs |-> [p \in 1..L |-> 0]],
                         in |-> [c \in cs |-> 0],
                         notin |-> [c \in cs |-> 0]])

\* the object's fields after update_chars and update_counts on answer_words
refreshed(aw) ==
    LET cs == update_chars(aw)
        cn == update_counts(aw, cs)
    IN  [answer_words |-> aw, chars |-> cs, pos |-> cn.pos, in |-> cn.in,
         notin |-> cn.notin]

\* the test add_char_hint makes on one word (lines 87-101): TRUE when the
\* word is kept
char_hint_keeps(word, char, label, pos) ==
    LET charinword == char \in Range(word)
    IN  CASE label = "0" -> ~charinword
          [] label = "1" -> charinword /\ word[pos] # char
          [] label = "2" -> charinword /\ word[pos] = char
          [] OTHER -> TRUE

\* word[pos] is read, and raises IndexError, when the label is '1' or '2',
\* the letter is in the word and pos is past its end
char_hint_raises(word, char, label, pos) ==
    label \in {"1", "2"} /\ char \in Range(word) /\ pos > Len(word)

\* add_char_hint on the object's fields st
add_char_hint(st, char, label, pos) ==
    IF \E w \in st.answer_words : char_hint_raises(w, char, label, pos)
    THEN [st |-> st, err |-> IndexError]
    ELSE [st |-> refreshed({w \in st.answer_words :
                              char_hint_keeps(w, char, label, pos)}),
          err |-> NoError]

\* the loop of add_word_hint over zip(word, label), from position pos on
RECURSIVE char_hints(_, _, _, _)
char_hints(st, word, label, pos) ==
    IF pos > Len(word) \/ pos > Len(label) THEN [st |-> st, err |-> NoError]
    ELSE LET r == add_char_hint(st, word[pos], label[pos], pos)
         IN  IF r.err # NoError THEN r
             ELSE char_hints(r.st, word, label, pos + 1)

\* add_word_hint of wordle.py on the object's fields st
add_word_hint(st, word, label) ==
    IF \E i \in DOMAIN label : label[i] \notin Symbols
    THEN [st |-> st, err |-> AssertionError]
    ELSE IF Len(word) # Len(label)
    THEN [st |-> st, err |-> AssertionError]
    ELSE char_hints(st, word, label, 1)

\* the fields of the wordle.py object in the current state
Fields ==
    [answer_words |-> answer_words, chars |-> chars, pos |-> char_pos_counts,
     in |-> char_in_counts, notin |-> char_notin_counts]

(***************************************************************************)
(* wordle.py: the heuristic score.  get_information returns a float,       *)
(* -sum(p*log(p)) with p = n/T; the model keeps T*10^6 times that value,   *)
(* T*ln(T) - sum(n*ln(n)), in whole millionths.  Every distribution scored *)
(* in one state has the same total T = len(answer_words), so the scores of *)
(* one predict call keep their order, and 0 stays 0.                       *)
(***************************************************************************)
\* np.log in millionths; a composite's value is the sum of its factors'
LnMicro(n) ==
    CASE n = 1 -> 0
      [] n = 2 -> 693147
      [] n = 3 -> 1098612
      [] n = 4 -> 2 * 693147
      [] n = 5 -> 1609438
      [] n = 6 -> 693147 + 1098612
      [] n = 7 -> 1945910
      [] n = 8 -> 3 * 693147
      [] n = 9 -> 2 * 1098612
      [] n = 10 -> 693147 + 1609438
      [] n = 11 -> 2397895
      [] n = 12 -> 2 * 693147 + 1098612
      [] n = 13 -> 2564949
      [] n = 14 -> 693147 + 1945910
      [] n = 15 -> 1098612 + 1609438
      [] n = 16 -> 4 * 693147

RECURSIVE SumSeq(_)
SumSeq(s) == IF Len(s) = 0 THEN 0 ELSE s[1] + SumSeq(Tail(s))

get_information(event_counts) ==
    LET positive == SelectSeq(event_counts, LAMBDA n : n > 0)
        total == SumSeq(positive)
    IN  IF Len(positive) = 0 THEN 0
        ELSE total * LnMicro(total)
                 - SumSeq([i \in DOMAIN positive |-> positive[i] * LnMicro(positive[i])])

get_char_info(st, char) ==
    IF char \notin st.chars THEN 0
    ELSE get_information(<<st.in[char], st.notin[char]>>)

get_char_pos_info_approx(st, char, pos) ==
    IF char \notin st.chars THEN 0
    ELSE get_information(<<st.pos[char][pos],
                           st.in[char] - st.pos[char][pos],
                           st.notin[char]>>)

\* the loop of get_word_info_approx, from position pos on
RECURSIVE word_info(_, _, _, _, _)
word_info(st, word, pos, wordchars, info) ==
    IF pos > Len(word) THEN info
    ELSE LET char == word[pos]
             more == info + get_char_pos_info_approx(st, char, pos)
         IN  IF char \in wordchars
             THEN word_info(st, word, pos + 1, wordchars, more - get_char_info(st, char))
             ELSE word_info(st, word, pos + 1, wordchars \cup {char}, more)

get_word_info_approx(st, word) == word_info(st, word, 1, {}, 0)

(***************************************************************************)
(* The ranking step of predict, in both scripts.                           *)
(***************************************************************************)
Injective(p) == \A i, j \in DOMAIN p : p[i] = p[j] => i = j

Min(a, b) == IF a < b THEN a ELSE b
Max(a, b) == IF a > b THEN a ELSE b

\* the length of s[:K] for a sequence of n elements: K elements at most, and
\* for a negative K all but the last -K
slice_len(n, K) == IF K >= 0 THEN Min(K, n) ELSE Max(n + K, 0)

\* the indexes of left that come first among left: those of the lowest score
\* in ascending order, of the highest in descending order
first_of(scores, left, descending) ==
    {i \in left : \A j \in left :
        IF descending THEN scores[i] >= scores[j] ELSE scores[i] <= scores[j]}

\* the first m indexes of a sort of left by score.  np.argsort's default sort
\* is quicksort, which is not stable: indexes of equal score come in any order
RECURSIVE sorted_prefixes(_, _, _, _)
sorted_prefixes(scores, left, m, descending) ==
    IF m <= 0 \/ left = {} THEN {<<>>}
    ELSE UNION {{<<i>> \o rest :
                    rest \in sorted_prefixes(scores, left \ {i}, m - 1, descending)} :
                i \in first_of(scores, left, descending)}

\* the ranking step with the heuristic's order not reversed
printed_orders_ascending(strategy, scores, K) ==
    sorted_prefixes(scores, DOMAIN scores, slice_len(Len(scores), K), FALSE)

\* the index sequences predict can print: np.argsort(scores)[::-1][:K] in
\* wordle.py, the reverse of an ascending sort cut to K, and
\* np.argsort(scores)[:K] in wordle_exact.py
printed_orders(strategy, scores, K) ==
    sorted_prefixes(scores, DOMAIN scores, slice_len(Len(scores), K),
                    strategy = "heuristic")

\* the lines printed: one (word, score) pair per index
printed_lines(ws, scores, idxs) ==
    [i \in DOMAIN idxs |-> <<ws[idxs[i]], scores[idxs[i]]>>]

\* predict of wordle.py: the sequences of lines it can print
predict(st, allowed, K, can_ignore_hints) ==
    LET ws == IF can_ignore_hints THEN ListOf(allowed) ELSE ListOf(st.answer_words)
        scores == [i \in DOMAIN ws |-> get_word_info_approx(st, ws[i])]
    IN  {printed_lines(ws, scores, order) :
            order \in printed_orders("heuristic", scores, K)}

(***************************************************************************)
(* wordle_exact.py: the exact score and predict.                           *)
(***************************************************************************)
\* Counter([self.get_label(word, w) for w in self.words[anstype][1]])
label_counts(wd, word, anstype) ==
    Counter([i \in DOMAIN wd[anstype][2] |-> get_label(word, wd[anstype][2][i])])

RECURSIVE SumOver(_, _)
SumOver(f, S) ==
    IF S = {} THEN 0
    ELSE LET x == CHOOSE y \in S : TRUE IN f[x] + SumOver(f, S \ {x})

\* get_score without the square: the sum of the partition sizes
get_score_unsquared(wd, word, anstype) ==
    LET tally == label_counts(wd, word, anstype)
    IN  SumOver(tally, DOMAIN tally)

\* get_score: (np.array(list(Counter(...).values()))**2).sum()
get_score(wd, word, anstype) ==
    LET tally == label_counts(wd, word, anstype)
    IN  SumOver([lab \in DOMAIN tally |-> tally[lab] * tally[lab]], DOMAIN tally)

\* predict of wordle_exact.py: the sequences of lines it can print;
\* self.words[searchtype][pruned] is the pruned list for pruned = True
exact_predict(wd, K, searchtype, anstype, pruned) ==
    LET ws == wd[searchtype][IF pruned THEN 2 ELSE 1]
        scores == [i \in DOMAIN ws |-> get_score(wd, ws[i], anstype)]
    IN  {printed_lines(ws, scores, order) :
            order \in printed_orders("exact", scores, K)}

(***************************************************************************)
(* The session: construction, then add_word_hint calls.                    *)
(***************************************************************************)
UniformWord(n, c) == [i \in 1..n |-> c]

\* the valid hints: a word of the session's length and a pattern for it
ValidHints == Words \X WordsOfLen(L, Symbols)

\* malformed hints: a word a letter short or long with a label of its own
\* length, of the session's length or of another, and a word of the session's
\* length with a label that is short, long or holds a foreign symbol
MalformedHints ==
    ({UniformWord(L - 1, "a"), UniformWord(L + 1, "a")}
        \X {UniformWord(L - 1, "2"), UniformWord(L + 1, "2"), UniformWord(L + 1, "0"),
            UniformWord(L, "2"), UniformWord(L, "0")})
    \cup
    ({UniformWord(L, "a"), [i \in 1..L |-> IF i = 1 THEN "a" ELSE "b"]}
        \X {UniformWord(L - 1, "2"), UniformWord(L + 1, "2"),
            [i \in 1..L |-> IF i = 1 THEN "x" ELSE "2"]})

\* the (word, label) pairs given to add_word_hint
HintCalls == ValidHints \cup MalformedHints

\* The state after construction.  wordle.py reads both files into sets and
\* builds the statistics; wordle_exact.py's read_initial_words stores each
\* list twice, as the original and as the pruned list (its call of read_words
\* is modelled by the list of words that function returns).
InitSession ==
    /\ enc = NoEnc
    /\ rank = NoRank
    /\ hints = <<>>
    /\ call = [op |-> "init", args |-> <<>>]
    /\ out = [err |-> NoError, lines |-> <<>>]
    /\ \E pool \in AnswerPools :
          \/ /\ prog = "heuristic"
             /\ answer_pool = pool
             /\ allowed_words = Words
             /\ answer_words = pool
             /\ chars = refreshed(pool).chars
             /\ char_pos_counts = refreshed(pool).pos
             /\ char_in_counts = refreshed(pool).in
             /\ char_notin_counts = refreshed(pool).notin
             /\ words = <<>>
          \/ /\ prog = "exact"
             /\ words = [allowed |-> <<ListOf(Words), ListOf(Words)>>,
                         answers |-> <<ListOf(pool), ListOf(pool)>>]
             /\ answer_pool = {}
             /\ allowed_words = {}
             /\ answer_words = {}
             /\ chars = {}
             /\ char_pos_counts = <<>>
             /\ char_in_counts = <<>>
             /\ char_notin_counts = <<>>

HeurAddWordHint(bound) ==
    /\ prog = "heuristic"
    /\ Len(hints) < bound
    /\ \E h \in HintCalls :
          \E r \in {add_word_hint(Fields, h[1], h[2])} :
              /\ answer_words' = r.st.answer_words
              /\ chars' = r.st.chars
              /\ char_pos_counts' = r.st.pos
              /\ char_in_counts' = r.st.in
              /\ char_notin_counts' = r.st.notin
              /\ hints' = IF r.err = AssertionError THEN hints
                          ELSE Append(hints, h)
              /\ call' = [op |-> "add_word_hint", args |-> h]
              /\ out' = [err |-> r.err, lines |-> <<>>]
    /\ UNCHANGED <<prog, words, answer_pool, allowed_words, enc, rank>>

ExactAddWordHint(bound) ==
    /\ prog = "exact"
    /\ Len(hints) < bound
    /\ \E h \in HintCalls :
          \E r \in {exact_add_word_hint(hints, words, h[1], h[2])} :
              /\ hints' = r.hints
              /\ words' = r.words
              /\ call' = [op |-> "add_word_hint", args |-> h]
              /\ out' = [err |-> r.err, lines |-> <<>>]
    /\ UNCHANGED <<prog, answer_pool, allowed_words, answer_words, chars,
                   char_pos_counts, char_in_counts, char_notin_counts, enc, rank>>

Next ==
    \/ HeurAddWordHint(MaxHints)
    \/ ExactAddWordHint(MaxHints)

Spec == InitSession /\ [][Next]_vars

(***************************************************************************)
(* Sessions that end in a predict call.                                    *)
(***************************************************************************)
HeurPredict ==
    /\ prog = "heuristic"
    /\ \E K \in 0..MaxK, can_ignore_hints \in BOOLEAN :
          \E lines \in predict(Fields, allowed_words, K, can_ignore_hints) :
              /\ call' = [op |-> "predict", args |-> <<K, can_ignore_hints>>]
              /\ out' = [err |-> NoError, lines |-> lines]
    /\ UNCHANGED <<prog, hints, words, answer_pool, allowed_words, answer_words,
                   chars, char_pos_counts, char_in_counts, char_notin_counts,
                   enc, rank>>

ExactPredict ==
    /\ prog = "exact"
    /\ \E K \in 0..MaxK, searchtype \in {"allowed", "answers"},
          anstype \in {"allowed", "answers"}, pruned \in BOOLEAN :
          \E lines \in exact_predict(words, K, searchtype, anstype, pruned) :
              /\ call' = [op |-> "predict",
                          args |-> <<K, searchtype, anstype, pruned>>]
              /\ out' = [err |-> NoError, lines |-> lines]
    /\ UNCHANGED <<prog, hints, words, answer_pool, allowed_words, answer_words,
                   chars, char_pos_counts, char_in_counts, char_notin_counts,
                   enc, rank>>

NextPredict ==
    \/ HeurAddWordHint(MaxPredictHints)
    \/ ExactAddWordHint(MaxPredictHints)
    \/ HeurPredict
    \/ ExactPredict

SpecPredict == InitSession /\ [][NextPredict]_vars

(***************************************************************************)
(* The ranking step taken alone: any scores, any K, either script.         *)
(***************************************************************************)
RankInputs ==
    UNION {[1..n -> 0..MaxScore] : n \in 0..MaxPool}

InitRank ==
    /\ Idle
    /\ enc = NoEnc
    /\ \E scores \in RankInputs, K \in (0 - 1)..(MaxPool + 1),
          strategy \in {"heuristic", "exact"} :
          rank = [scores |-> scores, K |-> K, strategy |-> strategy,
                  order |-> <<>>, done |-> FALSE]

Rank ==
    /\ ~rank.done
    /\ \E order \in printed_orders(rank.strategy, rank.scores, rank.K) :
          rank' = [rank EXCEPT !.order = order, !.done = TRUE]
    /\ UNCHANGED <<prog, hints, words, answer_pool, allowed_words, answer_words,
                   chars, char_pos_counts, char_in_counts, char_notin_counts,
                   call, out, enc>>

NextRank == Rank

SpecRank == InitRank /\ [][NextRank]_vars

(***************************************************************************)
(* The claims about the session.                                           *)
(***************************************************************************)
\* the candidate answer set: answer_words, or the pruned 'answers' list
Candidates ==
    CASE prog = "heuristic" -> answer_words
      [] prog = "exact" -> Range(words.answers[2])
      [] OTHER -> {}

\* the pruned 'allowed' list of wordle_exact.py, as a set
AllowedCandidates == IF prog = "exact" THEN Range(words.allowed[2]) ELSE {}

\* the words of pool whose feedback pattern equals the label of every hint of hs
ConsistentWith(pool, hs) ==
    {w \in pool : \A i \in DOMAIN hs : get_label(hs[i][1], w) = hs[i][2]}

\* a word or a label add_word_hint must reject
Malformed(word, label) ==
    \/ Len(word) # L
    \/ Len(label) # L
    \/ \E i \in DOMAIN label : label[i] \notin Symbols

WellFormedHints == \A i \in DOMAIN hints : ~Malformed(hints[i][1], hints[i][2])

\* C2: in wordle_exact.py, after any sequence of add_word_hint calls the
\* pruned list of each pool holds exactly the words of its original list whose
\* get_label against every recorded hint equals that hint's label.
C2_PrunedExactly ==
    prog = "exact" =>
        \A t \in {"allowed", "answers"} :
            Range(words[t][2]) = ConsistentWith(Range(words[t][1]), hints)

\* C2 for the sessions whose recorded hints all have the session's length and
\* valid symbols: the pruned lists are the filtered original lists, in order
PrunedExactlyWhenWellFormed ==
    (prog = "exact" /\ WellFormedHints) =>
        \A t \in {"allowed", "answers"} :
            words[t][2] = SelectSeq(words[t][1],
                             LAMBDA w : w \in ConsistentWith({w}, hints))

\* C3: in wordle.py, after any sequence of add_word_hint calls (each with a
\* word and a pattern of the session's length) answer_words is exactly the set
\* of answer-pool words whose two-pass feedback pattern equals the label of
\* every hint added; so an answer whose true feedback every label is stays in
\* answer_words.
C3_HeuristicMatchesEncoder ==
    (prog = "heuristic" /\ WellFormedHints) =>
        /\ answer_words = ConsistentWith(answer_pool, hints)
        /\ \A a \in ConsistentWith(answer_pool, hints) : a \in answer_words

\* C4: add_word_hint with a word or label of the wrong length, or a label with
\* a symbol outside '0','1','2', raises, and the hint sequence, the candidate
\* sets and the statistics are after the call what they were before it.
C4_MalformedHintRejected ==
    [][(call'.op = "add_word_hint" /\ Malformed(call'.args[1], call'.args[2]))
          => /\ out'.err # NoError
             /\ UNCHANGED <<hints, words, answer_words, chars, char_pos_counts,
                            char_in_counts, char_notin_counts>>]_vars

\* C5: in both scripts every add_word_hint call leaves a candidate set that is
\* a subset of the one before it: no word comes back.
C5_CandidatesShrink ==
    [][/\ Candidates' \subseteq Candidates
       /\ AllowedCandidates' \subseteq AllowedCandidates]_vars

\* wordle.py after two valid hints, each of which removed candidates, with
\* some candidates left
C5_Witness ==
    /\ prog = "heuristic"
    /\ Len(hints) = 2
    /\ WellFormedHints
    /\ answer_words # {}
    /\ \E first \in {add_word_hint(refreshed(answer_pool), hints[1][1], hints[1][2])} :
          /\ answer_words # first.st.answer_words
          /\ first.st.answer_words # answer_pool

\* the candidate set after add_word_hint(word, label) in the current state
AfterHint(fields, hs, wd, h) ==
    IF prog = "heuristic"
    THEN LET r == add_word_hint(fields, h[1], h[2])
         IN  [fields |-> r.st, hints |-> hs, words |-> wd,
              cands |-> r.st.answer_words]
    ELSE LET r == exact_add_word_hint(hs, wd, h[1], h[2])
         IN  [fields |-> fields, hints |-> r.hints, words |-> r.words,
              cands |-> Range(r.words.answers[2]) \cup
                        {<<"allowed", w>> : w \in Range(r.words.allowed[2])}]

\* C6: in both scripts, from any reachable state, add_word_hint called twice
\* in a row with the same valid arguments leaves the candidate set that one
\* call leaves.
C6_HintIdempotent ==
    (prog \in {"heuristic", "exact"} /\ Len(hints) < MaxHints) =>
        \A h \in ValidHints :
            \E once \in {AfterHint(Fields, hints, words, h)} :
                AfterHint(once.fields, once.hints, once.words, h).cands = once.cands

\* a state after a hint in which a further valid hint removes some candidates
\* and leaves some
C6_Witness ==
    /\ prog = "exact"
    /\ Len(hints) = 1
    /\ \E h \in ValidHints :
          LET once == AfterHint(Fields, hints, words, h)
          IN  /\ Range(once.words.answers[2]) # {}
              /\ Range(once.words.answers[2]) # Candidates

\* C9: for every guess word and every reachable pruned list C, the tallies
\* get_score builds have sizes that sum to len(C), and the score, the sum of
\* their squares, is at least len(C) and at most len(C) squared, and equals
\* len(C) exactly when every tally is 1.
C9_ScoreBounds ==
    prog = "exact" =>
        \A anstype \in {"allowed", "answers"} :
            \A i \in DOMAIN words.allowed[1] :
                LET word == words.allowed[1][i]
                    tally == label_counts(words, word, anstype)
                    n == Len(words[anstype][2])
                    score == get_score(words, word, anstype)
                IN  /\ SumOver(tally, DOMAIN tally) = n
                    /\ \A lab \in DOMAIN tally : tally[lab] >= 1
                    /\ n <= score
                    /\ score <= n * n
                    /\ (score = n) <=> (\A lab \in DOMAIN tally : tally[lab] = 1)

\* a pruned answers list that a guess splits into a part of one word and a
\* part of more than one
C9_Witness ==
    /\ prog = "exact"
    /\ Len(hints) >= 1
    /\ \E i \in DOMAIN words.allowed[1] :
          LET tally == label_counts(words, words.allowed[1][i], "answers")
          IN  /\ \E lab \in DOMAIN tally : tally[lab] = 1
              /\ \E lab \in DOMAIN tally : tally[lab] > 1

\* C10: in wordle.py, in every state after construction and any add_word_hint
\* calls, chars is the set of letters of the current answer_words,
\* char_in_counts[c] the number of candidates containing c, char_notin_counts[c]
\* the number of the others, and char_pos_counts[c][p] the number of
\* candidates with c at position p.
C10_StatisticsFresh ==
    prog = "heuristic" =>
        /\ chars = {c \in Alphabet : \E w \in answer_words : c \in Range(w)}
        /\ DOMAIN char_in_counts = chars
        /\ DOMAIN char_notin_counts = chars
        /\ DOMAIN char_pos_counts = chars
        /\ \A c \in chars :
              /\ char_in_counts[c] = Cardinality({w \in answer_words : c \in Range(w)})
              /\ char_notin_counts[c] = Cardinality(answer_words) - char_in_counts[c]
              /\ DOMAIN char_pos_counts[c] = 1..L
              /\ \A p \in 1..L :
                    char_pos_counts[c][p] = Cardinality({w \in answer_words : w[p] = c})

\* after a hint that removed candidates, a letter that some of the remaining
\* candidates hold and some do not
C10_Witness ==
    /\ prog = "heuristic"
    /\ Len(hints) >= 1
    /\ answer_words # answer_pool
    /\ \E c \in chars : char_in_counts[c] > 0 /\ char_notin_counts[c] > 0

(***************************************************************************)
(* The claims about predict.                                               *)
(***************************************************************************)
\* C7: when predict is called while the candidate answer set is empty, for
\* every choice of guess pool, it reports an error and prints no (word, score)
\* line.
C7_EmptyCandidatesReported ==
    (call.op = "predict" /\ Candidates = {}) =>
        /\ out.err # NoError
        /\ out.lines = <<>>

\* one index is ranked before another: by score in the strategy's direction
Better(strategy, a, b) == IF strategy = "heuristic" THEN a > b ELSE a < b

\* the stable sort of the indexes of scores in the strategy's direction
StableOrder(scores, strategy) ==
    CHOOSE p \in [DOMAIN scores -> DOMAIN scores] :
        /\ Injective(p)
        /\ \A i, j \in DOMAIN p :
              i < j => \/ Better(strategy, scores[p[i]], scores[p[j]])
                       \/ scores[p[i]] = scores[p[j]] /\ p[i] < p[j]

\* C8: for any pool order, scores and K, predict prints the first
\* min(K, len(pool)) elements of the stable sort of the pool by score in the
\* strategy's direction, ties in pool order, and the whole pool when K is
\* below 1 or above the pool size.
C8_StableTopK ==
    rank.done =>
        LET n == Len(rank.scores)
            k == IF rank.K < 1 \/ rank.K > n THEN n ELSE rank.K
        IN  rank.order = SubSeq(StableOrder(rank.scores, rank.strategy), 1, k)

\* C8 as amended: predict prints min(K, len(pool)) entries for K >= 0 and all
\* but the last -K for K < 0; they are distinct words of the pool, in the
\* strategy's direction by score, and none left out has a better score than
\* one printed.
C8_TopKByScore ==
    rank.done =>
        LET n == Len(rank.scores)
            m == IF rank.K >= 0 THEN Min(rank.K, n) ELSE Max(n + rank.K, 0)
            o == rank.order
        IN  /\ Len(o) = m
            /\ Injective(o)
            /\ Range(o) \subseteq 1..n
            /\ \A i, j \in DOMAIN o :
                  i < j => ~Better(rank.strategy, rank.scores[o[j]], rank.scores[o[i]])
            /\ \A i \in DOMAIN o : \A x \in (1..n) \ Range(o) :
                  ~Better(rank.strategy, rank.scores[x], rank.scores[o[i]])

\* the heuristic prints some but not all of a pool, and two words of equal
\* score come out in the reverse of their pool order
C8_Witness ==
    /\ rank.done
    /\ rank.strategy = "heuristic"
    /\ rank.K >= 1
    /\ rank.K < Len(rank.scores)
    /\ \E i \in DOMAIN rank.order :
          /\ i + 1 \in DOMAIN rank.order
          /\ rank.scores[rank.order[i]] = rank.scores[rank.order[i + 1]]
          /\ rank.order[i] > rank.order[i + 1]

====
